---- MODULE Spec2Model ----
(***************************************************************************)
(* Model of app.py: a Telegram bot whose text handler download_video       *)
(* validates a URL, probes and downloads it with yt_dlp into the staging   *)
(* directory, checks the file size, uploads the file and deletes it.       *)
(*                                                                         *)
(* A message is handled by one coroutine.  pc[i] is the source line the    *)
(* handler of message i executes next; log[i] is the sequence of calls it  *)
(* has made (a trailing "!" marks a call that raised).                     *)
(***************************************************************************)
EXTENDS Integers, Sequences, FiniteSets, TLC

\* Number of messages that arrive in one run.
MaxMsgs == 2

\* app.py:13
MAX_FILE_SIZE == 400 * 1024 * 1024
\* app.py:14
DOWNLOAD_DIR == "downloads"

\* message.from_user.id of the senders.
Users == {1, 12}

\* Message texts, as token sequences.  " " is whitespace.
UrlA == <<"https", "://", "host", "/A">>
UrlB == <<" ", "https", "://", "host", "/B", " ">>
Texts == { <<"/start">>, <<"/help">>, <<"hello">>, <<"host", "/A">>, UrlA, UrlB }

\* Sizes the downloaded file can have.
Sizes == {MAX_FILE_SIZE, MAX_FILE_SIZE + 1}

VARIABLES
    msgs,         \* the updates received so far, in order of arrival
    pc,           \* pc[i]: where the handler of message i is
    log,          \* log[i]: the calls the handling of message i has made
    fs,           \* the staging directory: path -> size in bytes
    output_path,  \* output_path[i]: the local of download_video, "" before line 75
    file_size,    \* file_size[i]: the local of download_video, -1 before line 81
    created,      \* created[i]: the paths the handling of message i created
    during        \* during[i]: the handlers inside probe/download when i arrived

vars == <<msgs, pc, log, fs, output_path, file_size, created, during>>

Ids == 1..Len(msgs)

----------------------------------------------------------------------------
(* Pure helpers *)

RECURSIVE lstrip(_)
lstrip(t) == IF t # <<>> /\ Head(t) = " " THEN lstrip(Tail(t)) ELSE t

RECURSIVE rstrip(_)
rstrip(t) ==
    IF t # <<>> /\ t[Len(t)] = " " THEN rstrip(SubSeq(t, 1, Len(t) - 1)) ELSE t

\* str.strip() of line 47
strip(t) == rstrip(lstrip(t))

\* validators.url of line 52: scheme, "://", host, and no whitespace.
validators_url(t) ==
    /\ Len(t) >= 3
    /\ t[1] \in {"http", "https", "ftp"}
    /\ t[2] = "://"
    /\ t[3] \notin {" ", "://"}
    /\ \A k \in 1..Len(t) : t[k] # " "

\* The url local of line 47
Url(i) == strip(msgs[i].text)

\* The title yt_dlp resolves for a URL (info['title']).
Title(url) == IF url[Len(url)] = "/A" THEN "a" ELSE "2_a"

\* outtmpl of line 61 as filled in by prepare_filename, line 75
prepare_filename(user_id, title) ==
    DOWNLOAD_DIR \o "/" \o ToString(user_id) \o "_" \o title \o ".mp4"

\* The partially written file yt_dlp leaves beside the output path.
PartFile(path) == path \o ".part"

\* os.remove of lines 87 and 102 on an existing path
os_remove(dir, path) == [p \in (DOMAIN dir) \ {path} |-> dir[p]]

\* A file written into the staging directory
WriteFile(dir, path, size) ==
    [p \in (DOMAIN dir) \cup {path} |-> IF p = path THEN size ELSE dir[p]]

IsCommand(t) == t # <<>> /\ t[1] \in {"/start", "/help"}

\* Log entries of a call that raised: any exception, yt_dlp.DownloadError
Raised(e) == e \o "!"
DlError(e) == e \o "!DownloadError"

\* The call e was made by the handling of message i (it returned or raised).
Called(i, e) ==
    \E k \in 1..Len(log[i]) : log[i][k] \in {e, Raised(e), DlError(e)}

\* The call e of message i returned.
Returned(i, e) == \E k \in 1..Len(log[i]) : log[i][k] = e

Count(i, e) ==
    Cardinality({k \in 1..Len(log[i]) : log[i][k] \in {e, Raised(e), DlError(e)}})

InProbeOrDownload(i) == pc[i] \in {"l73", "l78"}

Running(i) == pc[i] \notin {"queued", "done"}

----------------------------------------------------------------------------
Init ==
    /\ msgs = <<>>
    /\ pc = <<>>
    /\ log = <<>>
    /\ fs = <<>>
    /\ output_path = <<>>
    /\ file_size = <<>>
    /\ created = <<>>
    /\ during = <<>>

\* A user sends a message: it waits in the update queue.
Receive ==
    /\ Len(msgs) < MaxMsgs
    /\ \E u \in Users, t \in Texts :
          msgs' = Append(msgs, [user |-> u, text |-> t])
    /\ pc' = Append(pc, "queued")
    /\ log' = Append(log, <<>>)
    /\ output_path' = Append(output_path, "")
    /\ file_size' = Append(file_size, -1)
    /\ created' = Append(created, {})
    /\ during' = Append(during, {j \in Ids : InProbeOrDownload(j)})
    /\ UNCHANGED fs

\* A step of handler i that calls e: it returns (next pc ok) or raises (bad).
Call(i, e, ok, bad) ==
    \E raises \in BOOLEAN :
        /\ log' = [log EXCEPT ![i] = Append(@, IF raises THEN Raised(e) ELSE e)]
        /\ pc' = [pc EXCEPT ![i] = IF raises THEN bad ELSE ok]

\* Application.run_polling with the handlers of main(): updates are processed
\* one at a time (the Application is built without concurrent_updates, and
\* the handlers block), the first matching handler is scheduled.
Dispatch(i) ==
    /\ pc[i] = "queued"
    /\ \A j \in Ids : j < i => pc[j] = "done"
    /\ \A j \in Ids : ~Running(j)
    /\ pc' = [pc EXCEPT ![i] =
                IF msgs[i].text[1] = "/start" THEN "l29"
                ELSE IF msgs[i].text[1] = "/help" THEN "l43"
                ELSE "l52"]
    /\ UNCHANGED <<msgs, log, fs, output_path, file_size, created, during>>

\* start, line 29
Start(i) ==
    /\ pc[i] = "l29"
    /\ Call(i, "welcome", "done", "l120")
    /\ UNCHANGED <<msgs, fs, output_path, file_size, created, during>>

\* help_command, line 43
Help(i) ==
    /\ pc[i] = "l43"
    /\ Call(i, "help", "done", "l120")
    /\ UNCHANGED <<msgs, fs, output_path, file_size, created, during>>

\* Validate without the return of line 54
Validate_NoReturn(i) ==
    /\ pc[i] = "l52"
    /\ IF ~validators_url(Url(i))
         THEN Call(i, "invalid", "l57", "l120")
         ELSE /\ pc' = [pc EXCEPT ![i] = "l57"]
              /\ UNCHANGED log
    /\ UNCHANGED <<msgs, fs, output_path, file_size, created, during>>

\* download_video, lines 47-54: validation; a rejected text is answered and
\* the handler returns.
Validate(i) ==
    /\ pc[i] = "l52"
    /\ IF ~validators_url(Url(i))
         THEN Call(i, "invalid", "done", "l120")
         ELSE /\ pc' = [pc EXCEPT ![i] = "l57"]
              /\ UNCHANGED log
    /\ UNCHANGED <<msgs, fs, output_path, file_size, created, during>>

\* download_video, line 57: the progress notice, outside the try block
NotifyDownloading(i) ==
    /\ pc[i] = "l57"
    /\ Call(i, "downloading", "l73", "l120")
    /\ UNCHANGED <<msgs, fs, output_path, file_size, created, during>>

\* download_video, lines 73-75: the metadata probe, a synchronous call
Probe(i) ==
    /\ pc[i] = "l73"
    /\ \E outcome \in {"ok", "DownloadError", "Exception"} :
          /\ log' = [log EXCEPT ![i] =
                Append(@, CASE outcome = "ok" -> "extract_info"
                            [] outcome = "DownloadError" -> DlError("extract_info")
                            [] OTHER -> Raised("extract_info"))]
          /\ pc' = [pc EXCEPT ![i] =
                CASE outcome = "ok" -> "l78"
                  [] outcome = "DownloadError" -> "l106"
                  [] OTHER -> "l112"]
          /\ output_path' = [output_path EXCEPT ![i] =
                IF outcome = "ok"
                THEN prepare_filename(msgs[i].user, Title(Url(i)))
                ELSE @]
    /\ UNCHANGED <<msgs, fs, file_size, created, during>>

\* download_video, line 78: the retrieval, a synchronous call.  yt_dlp keeps
\* a file already at the output path; a failed retrieval may leave a
\* partially written file behind.
Download(i) ==
    /\ pc[i] = "l78"
    /\ \E outcome \in {"ok", "DownloadError", "Exception"},
          size \in Sizes, partial \in BOOLEAN :
          LET p == output_path[i]
              file == IF outcome = "ok" THEN p ELSE PartFile(p)
              writes == IF outcome = "ok" THEN p \notin DOMAIN fs ELSE partial
          IN /\ log' = [log EXCEPT ![i] =
                   Append(@, CASE outcome = "ok" -> "download"
                               [] outcome = "DownloadError" -> DlError("download")
                               [] OTHER -> Raised("download"))]
             /\ pc' = [pc EXCEPT ![i] =
                   CASE outcome = "ok" -> "l81"
                     [] outcome = "DownloadError" -> "l106"
                     [] OTHER -> "l112"]
             /\ fs' = IF writes THEN WriteFile(fs, file, size) ELSE fs
             /\ created' = [created EXCEPT ![i] =
                   IF writes /\ file \notin DOMAIN fs THEN @ \cup {file} ELSE @]
    /\ UNCHANGED <<msgs, output_path, file_size, during>>

\* download_video, lines 81-82: the size check
CheckSize(i) ==
    /\ pc[i] = "l81"
    /\ IF output_path[i] \in DOMAIN fs
         THEN /\ file_size' = [file_size EXCEPT ![i] = fs[output_path[i]]]
              /\ pc' = [pc EXCEPT ![i] =
                    IF fs[output_path[i]] > MAX_FILE_SIZE THEN "l83" ELSE "l92"]
              /\ log' = [log EXCEPT ![i] = Append(@, "getsize")]
         ELSE /\ pc' = [pc EXCEPT ![i] = "l112"]
              /\ log' = [log EXCEPT ![i] = Append(@, Raised("getsize"))]
              /\ UNCHANGED file_size
    /\ UNCHANGED <<msgs, fs, output_path, created, during>>

\* download_video, lines 83-86: the "too large" notice
ReplyTooLarge(i) ==
    /\ pc[i] = "l83"
    /\ Call(i, "too_large", "l87", "l112")
    /\ UNCHANGED <<msgs, fs, output_path, file_size, created, during>>

\* os.remove at line `at`: FileNotFoundError when the path is gone
Remove(i, at, ok) ==
    /\ pc[i] = at
    /\ IF output_path[i] \in DOMAIN fs
         THEN /\ fs' = os_remove(fs, output_path[i])
              /\ log' = [log EXCEPT ![i] = Append(@, "remove")]
              /\ pc' = [pc EXCEPT ![i] = ok]
         ELSE /\ log' = [log EXCEPT ![i] = Append(@, Raised("remove"))]
              /\ pc' = [pc EXCEPT ![i] = "l112"]
              /\ UNCHANGED fs
    /\ UNCHANGED <<msgs, output_path, file_size, created, during>>

\* download_video, lines 87-88: the oversized file is removed, return
RemoveTooLarge(i) == Remove(i, "l87", "done")

\* SendDocument with a failed upload swallowed: the file is removed anyway
SendDocument_IgnoreFailure(i) ==
    /\ pc[i] = "l92"
    /\ IF output_path[i] \in DOMAIN fs
         THEN Call(i, "send_document", "l102", "l102")
         ELSE /\ log' = [log EXCEPT ![i] = Append(@, Raised("open"))]
              /\ pc' = [pc EXCEPT ![i] = "l112"]
    /\ UNCHANGED <<msgs, fs, output_path, file_size, created, during>>

\* download_video, lines 91-99: the upload
SendDocument(i) ==
    /\ pc[i] = "l92"
    /\ IF output_path[i] \in DOMAIN fs
         THEN Call(i, "send_document", "l102", "l112")
         ELSE /\ log' = [log EXCEPT ![i] = Append(@, Raised("open"))]
              /\ pc' = [pc EXCEPT ![i] = "l112"]
    /\ UNCHANGED <<msgs, fs, output_path, file_size, created, during>>

\* download_video, line 102: the delivered file is removed
RemoveDelivered(i) == Remove(i, "l102", "l103")

\* download_video, line 103: the confirmation
ReplyCleanup(i) ==
    /\ pc[i] = "l103"
    /\ Call(i, "cleanup", "done", "l112")
    /\ UNCHANGED <<msgs, fs, output_path, file_size, created, during>>

\* download_video, lines 105-109: except yt_dlp.DownloadError
ReplyFailed(i) ==
    /\ pc[i] = "l106"
    /\ Call(i, "failed", "done", "l120")
    /\ UNCHANGED <<msgs, fs, output_path, file_size, created, during>>

\* download_video, lines 110-115: except Exception
ReplyGeneric(i) ==
    /\ pc[i] = "l112"
    /\ Call(i, "generic", "done", "l120")
    /\ UNCHANGED <<msgs, fs, output_path, file_size, created, during>>

\* error_handler, lines 117-124: an exception that escaped a handler
ErrorHandler(i) ==
    /\ pc[i] = "l120"
    /\ Call(i, "apology", "done", "done")
    /\ UNCHANGED <<msgs, fs, output_path, file_size, created, during>>

Next ==
    \/ Receive
    \/ \E i \in Ids : Dispatch(i)
    \/ \E i \in Ids : Start(i)
    \/ \E i \in Ids : Help(i)
    \/ \E i \in Ids : Validate(i)
    \/ \E i \in Ids : NotifyDownloading(i)
    \/ \E i \in Ids : Probe(i)
    \/ \E i \in Ids : Download(i)
    \/ \E i \in Ids : CheckSize(i)
    \/ \E i \in Ids : ReplyTooLarge(i)
    \/ \E i \in Ids : RemoveTooLarge(i)
    \/ \E i \in Ids : SendDocument(i)
    \/ \E i \in Ids : RemoveDelivered(i)
    \/ \E i \in Ids : ReplyCleanup(i)
    \/ \E i \in Ids : ReplyFailed(i)
    \/ \E i \in Ids : ReplyGeneric(i)
    \/ \E i \in Ids : ErrorHandler(i)

Spec == Init /\ [][Next]_vars

----------------------------------------------------------------------------
(* Properties *)

\* The handler of message i returns in this step.
Returns(i) == pc[i] # "done" /\ pc'[i] = "done"

IsText(i) == ~IsCommand(msgs[i].text)

\* The files in the staging directory that carry the request's user identity
\* and resolved title.
RequestFiles(i) ==
    IF output_path[i] = "" THEN {}
    ELSE {output_path[i], PartFile(output_path[i])}

\* Some entry e of log[i] at position k is preceded by an entry b.
Precedes(i, b, k) == \E m \in 1..(k - 1) : log[i][m] = b

\* C1: on every exit path of download_video, every file the invocation
\* created in the staging directory has been deleted when the handler returns.
C1_CreatedFilesDeletedOnReturn ==
    [][\A i \in Ids : Returns(i) => created'[i] \cap DOMAIN fs' = {}]_vars

\* C2: an artifact measured above MAX_FILE_SIZE is never passed to
\* send_document and its staging file is gone when download_video returns,
\* also when the "too large" reply itself fails.
C2_OversizedNeverSentAndRemoved ==
    [][\A i \in Ids :
         (Returns(i) /\ file_size[i] > MAX_FILE_SIZE)
            => /\ ~Called(i, "send_document")'
               /\ output_path[i] \notin DOMAIN fs']_vars

\* C3: for a valid URL whose probe and download succeed and whose size is at
\* most the ceiling, download_video returns having called send_document
\* exactly once and leaving no file of the request in the staging directory.
C3_DeliveredOnceNoResidue ==
    [][\A i \in Ids :
         (/\ Returns(i)
          /\ IsText(i) /\ validators_url(Url(i))
          /\ Returned(i, "extract_info") /\ Returned(i, "download")
          /\ file_size[i] >= 0 /\ file_size[i] <= MAX_FILE_SIZE)
            => /\ Count(i, "send_document")' = 1
               /\ RequestFiles(i) \cap DOMAIN fs' = {}]_vars

\* C4: a text the validator rejects is answered with the invalid-URL notice
\* and nothing else of the workflow happens: no "downloading" notice, no
\* probe, no download, no staging file created or deleted.
C4_InvalidUrlStopsWorkflow ==
    \A i \in Ids :
        (IsText(i) /\ ~validators_url(Url(i)))
           => /\ pc[i] \in {"queued", "l52", "l120", "done"}
              /\ \A k \in 1..Len(log[i]) :
                    log[i][k] \in {"invalid", Raised("invalid"),
                                   "apology", Raised("apology")}
              /\ pc[i] \in {"l120", "done"} => Called(i, "invalid")
              /\ created[i] = {}
              /\ output_path[i] = ""

\* C4 witness: a rejected text was answered with the notice alone, while a
\* file of an earlier request is still staged and was left untouched.
C4_Witness ==
    \E i \in Ids :
        /\ IsText(i) /\ ~validators_url(Url(i))
        /\ pc[i] = "done"
        /\ log[i] = <<"invalid">>
        /\ DOMAIN fs # {}

\* C5: a /help of another user that arrives while a handler is in its probe
\* or download step is answered before that download completes: once the
\* download has returned, the /help reply has been sent.
C5_HelpAnsweredDuringDownload ==
    \A i \in Ids, j \in Ids :
        (/\ i \in during[j]
         /\ msgs[j].text = <<"/help">>
         /\ msgs[j].user # msgs[i].user
         /\ Returned(i, "download"))
            => Returned(j, "help")

\* C6: when the probe or the download raises DownloadError, the "download
\* failed" notice is the reply (not the generic one), send_document is never
\* called and no file of the request is staged when the handler returns.
C6_DownloadErrorReportedNoFile ==
    [][\A i \in Ids :
         (/\ Returns(i)
          /\ \E k \in 1..Len(log[i]) :
                log[i][k] \in {DlError("extract_info"), DlError("download")})
            => /\ Called(i, "failed")'
               /\ ~Called(i, "generic")'
               /\ ~Called(i, "send_document")'
               /\ RequestFiles(i) \cap DOMAIN fs' = {}]_vars

\* C7: on the size-limit branch the oversized file is deleted before the
\* "too large" notice is sent.
C7_DeleteBeforeTooLargeNotice ==
    \A i \in Ids : \A k \in 1..Len(log[i]) :
        log[i][k] \in {"too_large", Raised("too_large")}
            => Precedes(i, "remove", k)

\* C8: on the delivery path the file is deleted only after send_document
\* returned, and the "Cleanup complete" confirmation is sent only after the
\* file was deleted: the file exists while the upload is pending and is gone
\* when the confirmation is emitted.
C8_DeleteAfterUploadConfirmAfterDelete ==
    \A i \in Ids :
        /\ pc[i] \in {"l92", "l102"} => output_path[i] \in DOMAIN fs
        /\ pc[i] = "l103" => output_path[i] \notin DOMAIN fs
        /\ \A k \in 1..Len(log[i]) :
              /\ (log[i][k] = "remove" /\ file_size[i] <= MAX_FILE_SIZE)
                    => Precedes(i, "send_document", k)
              /\ log[i][k] \in {"cleanup", Raised("cleanup")}
                    => Precedes(i, "remove", k)
        /\ (\E k \in 1..Len(log[i]) : log[i][k] = Raised("send_document"))
              => ~Called(i, "remove")

\* C8 witness: a delivery ran to its end: upload, deletion, confirmation.
C8_Witness ==
    \E i \in Ids :
        /\ pc[i] = "done"
        /\ log[i] = <<"downloading", "extract_info", "download", "getsize",
                      "send_document", "remove", "cleanup">>
        /\ output_path[i] \notin DOMAIN fs

TerminalOutcomes == {"send_document", "too_large", "failed", "generic"}

\* C9: the replies to a plain-text message are the invalid-URL notice alone,
\* or the "downloading" notice followed by exactly one terminal outcome
\* (attachment, "too large", "download failed", "generic error"); never two.
C9_OneTerminalOutcome ==
    \A i \in Ids :
        IsText(i) =>
           /\ Cardinality({e \in TerminalOutcomes : Returned(i, e)}) <= 1
           /\ Returned(i, "invalid") => log[i] = <<"invalid">>
           /\ \A k \in 1..Len(log[i]) :
                 log[i][k] \in TerminalOutcomes
                    => Precedes(i, "downloading", k)
           /\ Returned(i, "cleanup") => Returned(i, "send_document")

\* The request waiting in message j resolves to the staging path of the
\* running invocation i.
SameStagingPath(i, j) ==
    /\ IsText(j) /\ validators_url(Url(j))
    /\ prepare_filename(msgs[j].user, Title(Url(j))) = output_path[i]

\* C10: two invocations of one user resolving to one title use one staging
\* path and can be in flight together, so that one overwrites or deletes the
\* file the other is about to measure, upload or delete: while an invocation
\* with a staged file is suspended in a reply or in the upload, a waiting
\* request for the same path can be started.  Different users never share a
\* staging path.
C10_SamePathInvocationsOverlap ==
    /\ \A i \in Ids, j \in Ids :
          (/\ pc[i] \in {"l83", "l92", "l103"}
           /\ pc[j] = "queued"
           /\ \A m \in Ids : (m < j) => pc[m] # "queued"
           /\ SameStagingPath(i, j))
              => ENABLED Dispatch(j)
    /\ \A i \in Ids, j \in Ids :
          (msgs[i].user # msgs[j].user /\ output_path[i] # "")
              => output_path[i] # output_path[j]

====
